---- MODULE Spec2Model ----
(***************************************************************************)
(* Model of boosting::TreeRegressor (src/TreeRegressor.cpp): best-first    *)
(* growth of one regression tree over histogram-encoded features.          *)
(*                                                                         *)
(* Pointers to SplitNode are positions in allSplits_ (every node is pushed *)
(* there by the getBestSplit call that creates it and is never removed);   *)
(* NULL is 0.  A vector<int>* row subset is the sequence of row ids.       *)
(* Doubles are IEEE 754 binary64 values, every quotient, sum and          *)
(* difference rounded as the hardware rounds it.                           *)
(* Spec follows one getTree call on a freshly constructed TreeRegressor,   *)
(* step by step: sampling and root, each iteration of the growth loop, the *)
(* conversion to the output tree.                                          *)
(***************************************************************************)
EXTENDS Integers, Sequences, FiniteSets

VARIABLES
  ds_,                   \* the DataSet: numExamples, numFeatures_, features_
  y_,                    \* target value of each example
  FLAGS_min_leaf_examples,
  allSplits_,            \* arena of SplitNode records
  frontiers_,            \* sequence of SplitNode pointers
  fimps,                 \* the caller's importance array
  pc,                    \* "idle" | "loop" | "grown" | "segv" | one of AbortStates
  numLeaves, exampleSamplingRate, featureSamplingRate,   \* getTree arguments
  subset,                \* the rows sampled by getTree
  firstSplit,            \* root pointer held by getBestSplits
  numSelected,
  tree,                  \* the TreeNode returned by the last completed call
  calls                  \* getTree calls on this object that have returned

vars == <<ds_, y_, FLAGS_min_leaf_examples, allSplits_, frontiers_, fimps, pc,
          numLeaves, exampleSamplingRate, featureSamplingRate, subset,
          firstSplit, numSelected, tree, calls>>

(***************************************************************************)
(* Bounds of the model                                                     *)
(***************************************************************************)
NumExamples == 6
MaxLeaves == 4
MaxCalls == 2

(***************************************************************************)
(* Program constants                                                       *)
(***************************************************************************)
\* RAND_MAX of <cstdlib> in glibc: 2^31 - 1
RAND_MAX == 2147483647
NULL == 0

Examples == 0 .. (NumExamples - 1)
Features == {0, 1}
MinLeafChoices == {1, 2}
\* the two ends of the probability range; under an interior rate the flips
\* have the same outcomes as under rate 1 (true for r = 0, false for r = RAND_MAX)
Rates == {<<0, 1>>, <<1, 1>>}
Draws == {0, RAND_MAX}

(***************************************************************************)
(* IEEE 754 binary64 arithmetic, round to nearest, ties to even.           *)
(* A finite non-zero double is (-1)^s * (hi * Base + lo) * 2^e with a      *)
(* 53-bit mantissa kept in two limbs, 2^52 <= hi * Base + lo < 2^53.       *)
(* -0.0 and 0.0 are one value, Zero: no comparison and no sum of the       *)
(* program tells them apart.  Subnormals and overflow are out of the range *)
(* of the sums and quotients formed here.                                  *)
(***************************************************************************)
Base == 268435456
MantHi == 16777216
Abs(n) == IF n < 0 THEN -n ELSE n

NaN == [cls |-> "nan", s |-> 0, e |-> 0, hi |-> 0, lo |-> 0]
Inf(s) == [cls |-> "inf", s |-> s, e |-> 0, hi |-> 0, lo |-> 0]
Zero == [cls |-> "zero", s |-> 0, e |-> 0, hi |-> 0, lo |-> 0]
Num(s, e, hi, lo) == [cls |-> "num", s |-> s, e |-> e, hi |-> hi, lo |-> lo]

\* the mantissa hi, lo, one unit in the last place higher when up
Rounded(s, e, hi, lo, up) ==
  IF ~up THEN Num(s, e, hi, lo)
  ELSE IF lo + 1 < Base THEN Num(s, e, hi, lo + 1)
  ELSE IF hi + 1 < 2 * MantHi THEN Num(s, e, hi + 1, 0)
  ELSE Num(s, e + 1, MantHi, 0)

\* long division, one quotient bit per step, until the mantissa has 53 bits;
\* what remains of the dividend decides the rounding
RECURSIVE DivBits(_, _, _, _, _, _)
DivBits(s, rem, b, e, hi, lo) ==
  IF hi >= MantHi
    THEN Rounded(s, e, hi, lo, 2 * rem > b \/ (2 * rem = b /\ lo % 2 = 1))
    ELSE LET bit == IF 2 * rem >= b THEN 1 ELSE 0
         IN DivBits(s, 2 * rem - bit * b, b, e - 1,
                    2 * hi + (2 * lo + bit) \div Base, (2 * lo + bit) % Base)

\* the double a / b of two integers (each exact as a double)
DoubleDiv(a, b) ==
  IF b = 0 THEN (IF a = 0 THEN NaN ELSE Inf(IF a < 0 THEN 1 ELSE 0))
  ELSE IF a = 0 THEN Zero
  ELSE DivBits(IF (a < 0) = (b < 0) THEN 0 ELSE 1, Abs(a) % Abs(b), Abs(b), 0,
               (Abs(a) \div Abs(b)) \div Base, (Abs(a) \div Abs(b)) % Base)

\* q with its lowest bit set when bits were lost to the right of it
Sticky(q, lost) == IF lost /\ q % 2 = 0 THEN q + 1 ELSE q

\* the limbs m = <<hi, lo>> shifted right by d bits
ShiftRight(m, d) ==
  IF d = 0 THEN m
  ELSE IF d >= 56 THEN <<0, 1>>
  ELSE IF d >= 28
    THEN <<0, Sticky(m[1] \div 2 ^ (d - 28), m[1] % 2 ^ (d - 28) # 0 \/ m[2] # 0)>>
  ELSE <<m[1] \div 2 ^ d,
         Sticky(m[2] \div 2 ^ d + (m[1] % 2 ^ d) * (Base \div 2 ^ d), m[2] % 2 ^ d # 0)>>

\* the mantissa of x with three more bits to the right
Scaled(x) == <<8 * x.hi + (8 * x.lo) \div Base, (8 * x.lo) % Base>>

\* the three extra bits, low, rounded away
Guarded(s, e, hi, lo, low) ==
  Rounded(s, e, hi, lo, low > 4 \/ (low = 4 /\ lo % 2 = 1))

\* hi, lo brought to 56 bits, then rounded to 53
RECURSIVE NormRound(_, _, _, _)
NormRound(s, e, hi, lo) ==
  IF hi = 0 /\ lo = 0 THEN Zero
  ELSE IF hi >= Base
    THEN NormRound(s, e + 1, hi \div 2,
                   Sticky((hi % 2) * (Base \div 2) + lo \div 2, lo % 2 # 0))
  ELSE IF hi < Base \div 2
    THEN NormRound(s, e - 1, 2 * hi + (2 * lo) \div Base, (2 * lo) % Base)
  ELSE Guarded(s, e + 3, hi \div 8, (hi % 8) * (Base \div 8) + lo \div 8, lo % 8)

MagLess(x, y) ==
  \/ x.e < y.e
  \/ x.e = y.e /\ (x.hi < y.hi \/ (x.hi = y.hi /\ x.lo < y.lo))

Carry(lo) == IF lo < 0 THEN -1 ELSE lo \div Base

\* the limbs a plus (sign = 1) or minus (sign = -1) the limbs b
Combined(s, e, a, b, sign) ==
  NormRound(s, e, a[1] + sign * b[1] + Carry(a[2] + sign * b[2]),
            a[2] + sign * b[2] - Carry(a[2] + sign * b[2]) * Base)

\* big + small for finite non-zero doubles, big of no smaller magnitude
AddMag(big, small) ==
  Combined(big.s, big.e - 3, Scaled(big),
           ShiftRight(Scaled(small), big.e - small.e),
           IF big.s = small.s THEN 1 ELSE -1)

DoubleAdd(x, y) ==
  IF x.cls = "nan" \/ y.cls = "nan" THEN NaN
  ELSE IF x.cls = "inf" THEN (IF y.cls = "inf" /\ y.s # x.s THEN NaN ELSE x)
  ELSE IF y.cls = "inf" THEN y
  ELSE IF x.cls = "zero" THEN y
  ELSE IF y.cls = "zero" THEN x
  ELSE AddMag(IF MagLess(x, y) THEN y ELSE x, IF MagLess(x, y) THEN x ELSE y)

DoubleNeg(x) == IF x.cls \in {"num", "inf"} THEN [x EXCEPT !.s = 1 - @] ELSE x

DoubleSub(x, y) == DoubleAdd(x, DoubleNeg(y))

\* x < y; false when either is NaN
DoubleLess(x, y) ==
  LET sgn(v) == IF v.cls = "zero" THEN 0 ELSE IF v.s = 1 THEN -1 ELSE 1
      mag(u, v) == \/ u.cls = "num" /\ v.cls = "inf"
                   \/ u.cls = "num" /\ v.cls = "num" /\ MagLess(u, v)
  IN IF x.cls = "nan" \/ y.cls = "nan" THEN FALSE
     ELSE IF sgn(x) # sgn(y) THEN sgn(x) < sgn(y)
     ELSE IF sgn(x) = 0 THEN FALSE
     ELSE IF sgn(x) = 1 THEN mag(x, y)
     ELSE mag(y, x)

(***************************************************************************)
(* biasedCoinFlip: r is the value returned by rand(), probabilityOfTrue the *)
(* probability n / d as <<n, d>> with 0 <= n <= d.  The code compares r     *)
(* with the double n / d * RAND_MAX.  For n = 0 and n = d that product is   *)
(* exact; for 0 < n < d it is no integer, RAND_MAX being prime, and for the *)
(* small d of the model it lies further from every integer than the        *)
(* rounding of the quotient and of the product moves it.  So r is below the *)
(* double iff r * d < n * RAND_MAX, evaluated here without leaving 32 bits: *)
(* with RAND_MAX = q * d + m it is (r - n * q) * d < n * m.                 *)
(***************************************************************************)
biasedCoinFlip(probabilityOfTrue, r) ==
  LET n == probabilityOfTrue[1]
      d == probabilityOfTrue[2]
      k == r - n * (RAND_MAX \div d)
  IN IF k < 0 THEN TRUE
     ELSE IF k >= n THEN FALSE
     ELSE k * d < n * (RAND_MAX % d)

(***************************************************************************)
(* SplitNode constructor                                                   *)
(***************************************************************************)
SplitNode(st) ==
  [subset |-> st, fid |-> -1, fv |-> 0, gain |-> Zero, selected |-> FALSE,
   left |-> NULL, right |-> NULL]

(***************************************************************************)
(* Histogram and the templates of TreeRegressor.h                          *)
(***************************************************************************)
RECURSIVE Sum(_)
Sum(s) == IF s = <<>> THEN 0 ELSE Head(s) + Sum(Tail(s))

Histogram(n, cnt, sum) ==
  [num |-> n, cnt |-> [b \in 0 .. (n - 1) |-> 0], sumy |-> [b \in 0 .. (n - 1) |-> 0],
   totalCnt |-> cnt, totalSum |-> sum]

buildHistogram(rows, fvec, hist) ==
  LET InBin(b) == LET in(id) == fvec[id] = b IN SelectSeq(rows, in)
      Ys(s) == [i \in 1 .. Len(s) |-> y_[s[i]]]
  IN [hist EXCEPT !.cnt = [b \in 0 .. (hist.num - 1) |-> Len(InBin(b))],
                  !.sumy = [b \in 0 .. (hist.num - 1) |-> Sum(Ys(InBin(b)))]]

split(rows, fvec, fv) ==
  LET goesLeft(id) == fvec[id] <= fv
      goesRight(id) == ~(fvec[id] <= fv)
  IN [left |-> SelectSeq(rows, goesLeft), right |-> SelectSeq(rows, goesRight)]

(***************************************************************************)
(* TreeRegressor::splitExamples                                            *)
(***************************************************************************)
\* splitExamples reading the column of feature 0 whatever node.fid is
splitExamples_Feature0(node) ==
  split(node.subset, ds_.features_[0].bvec, node.fv)

splitExamples(node) ==
  LET f == ds_.features_[node.fid]
  IN IF f.encoding = "BYTE" THEN split(node.subset, f.bvec, node.fv)
     ELSE split(node.subset, f.svec, node.fv)

(***************************************************************************)
(* TreeRegressor::getBestSplitFromHistogram                                *)
(***************************************************************************)
\* The sums of targets are doubles; the targets of the data sets are integers
\* of magnitude at most 1, so the sums and their squares are integers, exact
\* as doubles, and only the divisions and subtractions round.  Quotients
\* holds the quotients of the squares and counts that NumExamples rows allow.
Quotients ==
  [a \in -(NumExamples * NumExamples) .. (NumExamples * NumExamples),
   b \in 0 .. NumExamples |-> DoubleDiv(a, b)]
Quotient(a, b) ==
  IF Abs(a) <= NumExamples * NumExamples /\ b \in 0 .. NumExamples
    THEN Quotients[a, b] ELSE DoubleDiv(a, b)

\* lossBefore without the square of totalSum
GainAt_NoSquare(hist, cntLeft, sumLeft) ==
  LET sumRight == hist.totalSum - sumLeft
      cntRight == hist.totalCnt - cntLeft
      lossBefore == Quotient(-1 * hist.totalSum, hist.totalCnt)
      lossAfter == DoubleSub(Quotient(-1 * sumLeft * sumLeft, cntLeft),
                             Quotient(sumRight * sumRight, cntRight))
  IN DoubleSub(lossBefore, lossAfter)

GainAt(hist, cntLeft, sumLeft) ==
  LET sumRight == hist.totalSum - sumLeft
      cntRight == hist.totalCnt - cntLeft
      lossBefore == Quotient(-1 * hist.totalSum * hist.totalSum, hist.totalCnt)
      lossAfter == DoubleSub(Quotient(-1 * sumLeft * sumLeft, cntLeft),
                             Quotient(sumRight * sumRight, cntRight))
  IN DoubleSub(lossBefore, lossAfter)

\* The loop of lines 111-135 from index i on.  ScanHistogram is the head of
\* an iteration up to the two count tests, KeepBest its end (lines 131-134)
\* and the next iteration.
RECURSIVE ScanHistogram(_, _, _, _, _, _)
KeepBest(hist, i, cntLeft, sumLeft, bestGain, bestIdx, gain) ==
  IF DoubleLess(bestGain, gain)
    THEN ScanHistogram(hist, i + 1, cntLeft, sumLeft, gain, i)
    ELSE ScanHistogram(hist, i + 1, cntLeft, sumLeft, bestGain, bestIdx)

ScanHistogram(hist, i, cntLeft0, sumLeft0, bestGain, bestIdx) ==
  IF ~(i < hist.num - 1) THEN [idx |-> bestIdx, gain |-> bestGain]
  ELSE LET cntLeft == cntLeft0 + hist.cnt[i]
           sumLeft == sumLeft0 + hist.sumy[i]
           cntRight == hist.totalCnt - cntLeft
       IN IF cntLeft < FLAGS_min_leaf_examples
            THEN ScanHistogram(hist, i + 1, cntLeft, sumLeft, bestGain, bestIdx)
          ELSE IF cntRight < FLAGS_min_leaf_examples
            THEN [idx |-> bestIdx, gain |-> bestGain]
          ELSE KeepBest(hist, i, cntLeft, sumLeft, bestGain, bestIdx,
                        GainAt(hist, cntLeft, sumLeft))

\* the scan without the break on a right side that is too small
RECURSIVE ScanHistogram_NoRightCheck(_, _, _, _, _, _)
ScanHistogram_NoRightCheck(hist, i, cntLeft0, sumLeft0, bestGain, bestIdx) ==
  IF ~(i < hist.num - 1) THEN [idx |-> bestIdx, gain |-> bestGain]
  ELSE LET cntLeft == cntLeft0 + hist.cnt[i]
           sumLeft == sumLeft0 + hist.sumy[i]
       IN IF cntLeft < FLAGS_min_leaf_examples
            THEN ScanHistogram_NoRightCheck(hist, i + 1, cntLeft, sumLeft, bestGain, bestIdx)
          ELSE LET gain == GainAt(hist, cntLeft, sumLeft)
               IN IF DoubleLess(bestGain, gain)
                    THEN ScanHistogram_NoRightCheck(hist, i + 1, cntLeft, sumLeft, gain, i)
                    ELSE ScanHistogram_NoRightCheck(hist, i + 1, cntLeft, sumLeft,
                                                    bestGain, bestIdx)

\* the scan with >= for >: among equal gains the last index wins
RECURSIVE ScanHistogram_LastTie(_, _, _, _, _, _)
ScanHistogram_LastTie(hist, i, cntLeft0, sumLeft0, bestGain, bestIdx) ==
  IF ~(i < hist.num - 1) THEN [idx |-> bestIdx, gain |-> bestGain]
  ELSE LET cntLeft == cntLeft0 + hist.cnt[i]
           sumLeft == sumLeft0 + hist.sumy[i]
           cntRight == hist.totalCnt - cntLeft
       IN IF cntLeft < FLAGS_min_leaf_examples
            THEN ScanHistogram_LastTie(hist, i + 1, cntLeft, sumLeft, bestGain, bestIdx)
          ELSE IF cntRight < FLAGS_min_leaf_examples
            THEN [idx |-> bestIdx, gain |-> bestGain]
          ELSE LET gain == GainAt(hist, cntLeft, sumLeft)
               IN IF ~DoubleLess(gain, bestGain)
                    THEN ScanHistogram_LastTie(hist, i + 1, cntLeft, sumLeft, gain, i)
                    ELSE ScanHistogram_LastTie(hist, i + 1, cntLeft, sumLeft,
                                               bestGain, bestIdx)

\* the scan that stops, instead of going on, at a left side that is too small
RECURSIVE ScanHistogram_BreakLeft(_, _, _, _, _, _)
ScanHistogram_BreakLeft(hist, i, cntLeft0, sumLeft0, bestGain, bestIdx) ==
  IF ~(i < hist.num - 1) THEN [idx |-> bestIdx, gain |-> bestGain]
  ELSE LET cntLeft == cntLeft0 + hist.cnt[i]
           sumLeft == sumLeft0 + hist.sumy[i]
           cntRight == hist.totalCnt - cntLeft
       IN IF cntLeft < FLAGS_min_leaf_examples \/ cntRight < FLAGS_min_leaf_examples
            THEN [idx |-> bestIdx, gain |-> bestGain]
          ELSE LET gain == GainAt(hist, cntLeft, sumLeft)
               IN IF DoubleLess(bestGain, gain)
                    THEN ScanHistogram_BreakLeft(hist, i + 1, cntLeft, sumLeft, gain, i)
                    ELSE ScanHistogram_BreakLeft(hist, i + 1, cntLeft, sumLeft,
                                                 bestGain, bestIdx)

\* CHECK(hist.num >= 1), then the loop: failed tells that the CHECK failed,
\* and then nothing is written to *idx and *gain
CheckNum(hist, r) ==
  IF ~(hist.num >= 1) THEN [idx |-> -1, gain |-> Zero, failed |-> TRUE]
  ELSE [idx |-> r.idx, gain |-> r.gain, failed |-> FALSE]

getBestSplitFromHistogram_BreakLeft(hist) ==
  CheckNum(hist, ScanHistogram_BreakLeft(hist, 0, 0, 0, Zero, -1))

getBestSplitFromHistogram_LastTie(hist) ==
  CheckNum(hist, ScanHistogram_LastTie(hist, 0, 0, 0, Zero, -1))

getBestSplitFromHistogram_NoRightCheck(hist) ==
  CheckNum(hist, ScanHistogram_NoRightCheck(hist, 0, 0, 0, Zero, -1))

getBestSplitFromHistogram(hist) ==
  CheckNum(hist, ScanHistogram(hist, 0, 0, 0, Zero, -1))

(***************************************************************************)
(* TreeRegressor::getBestSplit.  st = [all, fr] is (allSplits_,            *)
(* frontiers_) before the call; the result adds ptr, the node returned,    *)
(* and abort: "no", or the CHECK that failed inside the call, which then   *)
(* has pushed nothing.                                                     *)
(* draws[fid] is the rand() value of the coin flip for feature fid.        *)
(***************************************************************************)
FeatureHistogram(rows, totalSum, fid) ==
  LET f == ds_.features_[fid]
      hist == Histogram(Len(f.transitions) + 1, Len(rows), totalSum)
  IN IF f.encoding = "BYTE" THEN buildHistogram(rows, f.bvec, hist)
     ELSE buildHistogram(rows, f.svec, hist)

\* the feature loop with >= for >: among equal gains the last feature wins
RECURSIVE FeatureLoop_LastTie(_, _, _, _, _, _)
FeatureLoop_LastTie(rows, totalSum, featureRate, draws, fid, best) ==
  IF ~(fid < ds_.numFeatures_) THEN best
  ELSE IF \/ ds_.features_[fid].encoding = "EMPTY"
          \/ ~biasedCoinFlip(featureRate, draws[fid])
    THEN FeatureLoop_LastTie(rows, totalSum, featureRate, draws, fid + 1, best)
  ELSE IF ds_.features_[fid].encoding \notin {"BYTE", "SHORT"}
    \* CHECK(f.encoding == SHORT)
    THEN [best EXCEPT !.abort = "abort_encoding"]
  ELSE LET r == getBestSplitFromHistogram(FeatureHistogram(rows, totalSum, fid))
       IN IF r.failed THEN [best EXCEPT !.abort = "abort_num"]
          ELSE IF ~DoubleLess(r.gain, best.gain)
            THEN FeatureLoop_LastTie(rows, totalSum, featureRate, draws, fid + 1,
                                 [fid |-> fid, fv |-> r.idx, gain |-> r.gain,
                                  abort |-> "no"])
            ELSE FeatureLoop_LastTie(rows, totalSum, featureRate, draws, fid + 1, best)

\* lines 188-194: the result r of the evaluator for feature fid against the
\* best so far
BetterFeature(best, fid, r) ==
  IF r.failed THEN [best EXCEPT !.abort = "abort_num"]
  ELSE IF DoubleLess(best.gain, r.gain)
    THEN [fid |-> fid, fv |-> r.idx, gain |-> r.gain, abort |-> "no"]
  ELSE best

RECURSIVE FeatureLoop(_, _, _, _, _, _)
FeatureLoop(rows, totalSum, featureRate, draws, fid, best) ==
  IF best.abort # "no" \/ ~(fid < ds_.numFeatures_) THEN best
  ELSE IF \/ ds_.features_[fid].encoding = "EMPTY"
          \/ ~biasedCoinFlip(featureRate, draws[fid])
    THEN FeatureLoop(rows, totalSum, featureRate, draws, fid + 1, best)
  ELSE IF ds_.features_[fid].encoding \notin {"BYTE", "SHORT"}
    \* CHECK(f.encoding == SHORT)
    THEN [best EXCEPT !.abort = "abort_encoding"]
  ELSE FeatureLoop(rows, totalSum, featureRate, draws, fid + 1,
                   BetterFeature(best, fid,
                     getBestSplitFromHistogram(FeatureHistogram(rows, totalSum, fid))))

\* lines 196-202: the best split stored in the node, the node pushed; nothing
\* of it when a CHECK of the feature loop has failed
PushSplit(st, rows, best) ==
  IF best.abort # "no"
    THEN [all |-> st.all, fr |-> st.fr, ptr |-> NULL, abort |-> best.abort]
    ELSE [all |-> Append(st.all, [SplitNode(rows) EXCEPT !.fid = best.fid,
                                    !.fv = best.fv, !.gain = best.gain]),
          fr |-> Append(st.fr, Len(st.all) + 1),
          ptr |-> Len(st.all) + 1, abort |-> "no"]

\* getBestSplit that searches and enqueues terminal candidates too
getBestSplit_AlwaysSearch(st, rows, featureRate, terminal, draws) ==
  PushSplit(st, rows,
            FeatureLoop(rows, Sum([i \in 1 .. Len(rows) |-> y_[rows[i]]]),
                        featureRate, draws, 0,
                        [fid |-> -1, fv |-> 0, gain |-> Zero, abort |-> "no"]))

getBestSplit(st, rows, featureRate, terminal, draws) ==
  IF terminal
    THEN [all |-> Append(st.all, SplitNode(rows)), fr |-> st.fr,
          ptr |-> Len(st.all) + 1, abort |-> "no"]
    ELSE PushSplit(st, rows,
                   FeatureLoop(rows, Sum([i \in 1 .. Len(rows) |-> y_[rows[i]]]),
                               featureRate, draws, 0,
                               [fid |-> -1, fv |-> 0, gain |-> Zero, abort |-> "no"]))

(***************************************************************************)
(* A size_t compared with an int: the int is converted to size_t, and a    *)
(* negative one becomes a value above every size.                          *)
(***************************************************************************)
SizeAtLeast(size, n) == n >= 0 /\ size >= n

(***************************************************************************)
(* TreeRegressor::getTreeHelper.  Returns the output node, the importance  *)
(* array as the walk leaves it (where a leaf-size CHECK ended the walk,    *)
(* the array with the gains added up to there), failed: a leaf-size CHECK  *)
(* failed and ended the walk there, and deref: the walk, before it ended,  *)
(* met a selected candidate with a NULL child, whose subset the LOG        *)
(* statement reads through the NULL pointer.  That read is undefined       *)
(* behaviour: the process is killed by it, or the walk goes on as written  *)
(* here.  atDeref is the importance array at the first such read, which    *)
(* comes before the candidate's own gain is added.                         *)
(***************************************************************************)
NullNode == [kind |-> "NULL"]

\* the walk with fimps[fid] = gain for fimps[fid] += gain
RECURSIVE getTreeHelper_Assign(_, _)
getTreeHelper_Assign(p, fi) ==
  IF p = NULL
    THEN [node |-> NullNode, fimps |-> fi, failed |-> FALSE, deref |-> FALSE,
          atDeref |-> fi]
  ELSE LET s == allSplits_[p]
       IN IF ~s.selected
            THEN [node |-> [kind |-> "LeafNode", rows |-> s.subset],
                  fimps |-> fi,
                  failed |-> ~SizeAtLeast(Len(s.subset), FLAGS_min_leaf_examples),
                  deref |-> FALSE,
                  atDeref |-> fi]
            ELSE LET fi1 == [fi EXCEPT ![s.fid] = s.gain]
                     l == getTreeHelper_Assign(s.left, fi1)
                     r == IF l.failed THEN l ELSE getTreeHelper_Assign(s.right, l.fimps)
                 IN [node |-> [kind |-> "PartitionNode", fid |-> s.fid, fv |-> s.fv,
                               rows |-> s.subset, left |-> l.node, right |-> r.node],
                     fimps |-> r.fimps,
                     failed |-> r.failed,
                     deref |-> \/ s.left = NULL \/ s.right = NULL
                               \/ l.deref
                               \/ ~l.failed /\ r.deref,
                     atDeref |-> IF s.left = NULL \/ s.right = NULL THEN fi
                                 ELSE IF l.deref THEN l.atDeref
                                 ELSE r.atDeref]

RECURSIVE getTreeHelper(_, _)
getTreeHelper(p, fi) ==
  IF p = NULL
    THEN [node |-> NullNode, fimps |-> fi, failed |-> FALSE, deref |-> FALSE,
          atDeref |-> fi]
  ELSE LET s == allSplits_[p]
       IN IF ~s.selected
            THEN [node |-> [kind |-> "LeafNode", rows |-> s.subset],
                  fimps |-> fi,
                  failed |-> ~SizeAtLeast(Len(s.subset), FLAGS_min_leaf_examples),
                  deref |-> FALSE,
                  atDeref |-> fi]
            ELSE LET fi1 == [fi EXCEPT ![s.fid] = DoubleAdd(@, s.gain)]
                     l == getTreeHelper(s.left, fi1)
                     r == IF l.failed THEN l ELSE getTreeHelper(s.right, l.fimps)
                 IN [node |-> [kind |-> "PartitionNode", fid |-> s.fid, fv |-> s.fv,
                               rows |-> s.subset, left |-> l.node, right |-> r.node],
                     fimps |-> r.fimps,
                     failed |-> r.failed,
                     deref |-> \/ s.left = NULL \/ s.right = NULL
                               \/ l.deref
                               \/ ~l.failed /\ r.deref,
                     atDeref |-> IF s.left = NULL \/ s.right = NULL THEN fi
                                 ELSE IF l.deref THEN l.atDeref
                                 ELSE r.atDeref]

(***************************************************************************)
(* TreeRegressor::getBestSplits: the linear search over the frontier       *)
(***************************************************************************)
\* the search without the update of bestGain
RECURSIVE FrontierScan_NoUpdate(_, _, _, _)
FrontierScan_NoUpdate(fr, it, bestGain, best_it) ==
  IF it > Len(fr) THEN best_it
  ELSE IF DoubleLess(bestGain, allSplits_[fr[it]].gain)
    THEN FrontierScan_NoUpdate(fr, it + 1, bestGain, it)
    ELSE FrontierScan_NoUpdate(fr, it + 1, bestGain, best_it)

\* the search with >= for >: among equal gains the last entry wins
RECURSIVE FrontierScan_LastTie(_, _, _, _)
FrontierScan_LastTie(fr, it, bestGain, best_it) ==
  IF it > Len(fr) THEN best_it
  ELSE IF ~DoubleLess(allSplits_[fr[it]].gain, bestGain)
    THEN FrontierScan_LastTie(fr, it + 1, allSplits_[fr[it]].gain, it)
    ELSE FrontierScan_LastTie(fr, it + 1, bestGain, best_it)

RECURSIVE FrontierScan(_, _, _, _)
FrontierScan(fr, it, bestGain, best_it) ==
  IF it > Len(fr) THEN best_it
  ELSE IF DoubleLess(bestGain, allSplits_[fr[it]].gain)
    THEN FrontierScan(fr, it + 1, allSplits_[fr[it]].gain, it)
    ELSE FrontierScan(fr, it + 1, bestGain, best_it)

\* the search started from the lowest double instead of 0.0
BestIt_Lowest(fr) == FrontierScan(fr, 1, DoubleDiv(-1, 1), 0)

\* position of the best frontier entry; 0 stands for frontiers_.end()
BestIt(fr) == FrontierScan(fr, 1, Zero, 0)

Erase_Kept(s, i) == s

Erase(s, i) == [k \in 1 .. (Len(s) - 1) |-> IF k < i THEN s[k] ELSE s[k + 1]]

numSplits == numLeaves - 1

(***************************************************************************)
(* The CHECKs: a failed CHECK terminates the process.  "segv" is the       *)
(* process killed by the read through a NULL pointer in getTreeHelper.     *)
(***************************************************************************)
AbortStates == {"abort_subset", "abort_frontier", "abort_gain", "abort_encoding",
                "abort_num", "abort_leaf"}

\* the check without the factor numLeaves
SampleCheck_NoLeaves(rows, n) == SizeAtLeast(Len(rows), FLAGS_min_leaf_examples)

\* CHECK(subset->size() >= FLAGS_min_leaf_examples * numLeaves)
SampleCheck(rows, n) == SizeAtLeast(Len(rows), FLAGS_min_leaf_examples * n)

(***************************************************************************)
(* Initial state: a freshly constructed TreeRegressor over a DataSet       *)
(***************************************************************************)
\* feature 0: narrow encoding, three bins; feature 1: wide encoding with two
\* bins, or empty
Feature0(col) ==
  [encoding |-> "BYTE", transitions |-> <<10, 20>>, bvec |-> col, svec |-> <<>>]
Feature1(col) ==
  [encoding |-> "SHORT", transitions |-> <<5>>, bvec |-> <<>>, svec |-> col]
EmptyFeature ==
  [encoding |-> "EMPTY", transitions |-> <<>>, bvec |-> <<>>, svec |-> <<>>]

\* The data sets the model draws from.  Row sampling then grows the tree over
\* any subset of the rows.
Column0Choices == {[i \in Examples |-> i % 3], [i \in Examples |-> 2 * (i % 2)]}
Column1 == [i \in Examples |-> (i \div 2) % 2]
TargetChoices == {[i \in Examples |-> 1 - 2 * (i % 2)],
                  [i \in Examples |-> ((i + (i \div 3)) % 3) - 1]}

DataSetOf(col0, enc1) ==
  [numExamples |-> NumExamples, numFeatures_ |-> Cardinality(Features),
   features_ |-> [f \in Features |->
      IF f = 0 THEN Feature0(col0)
      ELSE IF enc1 = "EMPTY" THEN EmptyFeature
      ELSE Feature1(Column1)]]

Init ==
  /\ \E col0 \in Column0Choices, enc1 \in {"EMPTY", "SHORT"} :
       ds_ = DataSetOf(col0, enc1)
  /\ y_ \in TargetChoices
  /\ FLAGS_min_leaf_examples \in MinLeafChoices
  /\ allSplits_ = <<>>
  /\ frontiers_ = <<>>
  /\ fimps = [f \in Features |-> Zero]
  /\ pc = "idle"
  /\ numLeaves = 1
  /\ exampleSamplingRate = <<1, 1>>
  /\ featureSamplingRate = <<1, 1>>
  /\ subset = <<>>
  /\ firstSplit = NULL
  /\ numSelected = 0
  /\ tree = NullNode
  /\ calls = 0

(***************************************************************************)
(* TreeRegressor::getTree up to the first loop iteration of getBestSplits: *)
(* row sampling, the sample-size CHECK, the root candidate.                *)
(***************************************************************************)
RECURSIVE SampleRows(_, _, _)
SampleRows(i, rate, draws) ==
  IF ~(i < ds_.numExamples) THEN <<>>
  ELSE IF biasedCoinFlip(rate, draws[i])
    THEN <<i>> \o SampleRows(i + 1, rate, draws)
    ELSE SampleRows(i + 1, rate, draws)

GetTreeBegin(n, eRate, fRate, rowDraws, featDraws) ==
  /\ pc = "idle"
  /\ numLeaves' = n
  /\ exampleSamplingRate' = eRate
  /\ featureSamplingRate' = fRate
  /\ subset' = SampleRows(0, eRate, rowDraws)
  /\ IF ~SampleCheck(subset', n)
       THEN /\ pc' = "abort_subset"
            /\ UNCHANGED <<allSplits_, frontiers_, firstSplit, numSelected>>
       ELSE \E st \in {getBestSplit([all |-> allSplits_, fr |-> frontiers_],
                                    subset', fRate, FALSE, featDraws)} :
               IF st.abort # "no"
                 THEN /\ pc' = st.abort
                      /\ UNCHANGED <<allSplits_, frontiers_, firstSplit,
                                     numSelected>>
                 ELSE /\ allSplits_' = st.all
                      /\ frontiers_' = st.fr
                      /\ firstSplit' = st.ptr
                      /\ numSelected' = 0
                      /\ pc' = "loop"
  /\ UNCHANGED <<ds_, y_, FLAGS_min_leaf_examples, fimps, tree, calls>>

(***************************************************************************)
(* One iteration of the do-while loop of getBestSplits                     *)
(***************************************************************************)
\* the expansion that does not store the right child in the selected candidate
Expand_NoRight(best_it, leftDraws, rightDraws) ==
  LET p == frontiers_[best_it]
      all1 == [allSplits_ EXCEPT ![p].selected = TRUE]
      n1 == numSelected + 1
      fr1 == Erase(frontiers_, best_it)
      parts == splitExamples(all1[p])
      terminal == (n1 = numSplits)
  IN \E stL \in {getBestSplit([all |-> all1, fr |-> fr1], parts.left,
                               featureSamplingRate, terminal, leftDraws)} :
     \E stR \in {IF stL.abort # "no" THEN stL
                  ELSE getBestSplit([all |-> [stL.all EXCEPT ![p].left = stL.ptr],
                                     fr |-> stL.fr],
                                    parts.right, featureSamplingRate, terminal,
                                    rightDraws)} :
       /\ allSplits_' = stR.all
       /\ frontiers_' = stR.fr
       /\ numSelected' = n1
       /\ pc' = IF stR.abort # "no" THEN stR.abort
                ELSE IF n1 < numSplits THEN "loop" ELSE "grown"

Expand(best_it, leftDraws, rightDraws) ==
  LET p == frontiers_[best_it]
      all1 == [allSplits_ EXCEPT ![p].selected = TRUE]
      n1 == numSelected + 1
      fr1 == Erase(frontiers_, best_it)
      parts == splitExamples(all1[p])
      terminal == (n1 = numSplits)
  IN \E stL \in {getBestSplit([all |-> all1, fr |-> fr1], parts.left,
                               featureSamplingRate, terminal, leftDraws)} :
     \E stR \in {IF stL.abort # "no" THEN stL
                  ELSE getBestSplit([all |-> [stL.all EXCEPT ![p].left = stL.ptr],
                                     fr |-> stL.fr],
                                    parts.right, featureSamplingRate, terminal,
                                    rightDraws)} :
       /\ allSplits_' = IF stR.abort # "no" THEN stR.all
                       ELSE [stR.all EXCEPT ![p].right = stR.ptr]
       /\ frontiers_' = stR.fr
       /\ numSelected' = n1
       /\ pc' = IF stR.abort # "no" THEN stR.abort
                ELSE IF n1 < numSplits THEN "loop" ELSE "grown"

GainOf(fr, it) == IF it = 0 THEN Zero ELSE allSplits_[fr[it]].gain

SelectExpand(leftDraws, rightDraws) ==
  /\ pc = "loop"
  /\ LET best_it == BestIt(frontiers_)
         bestGain == GainOf(frontiers_, best_it)
     IN IF ~(Len(frontiers_) = numSelected + 1)
          THEN /\ pc' = "abort_frontier"
               /\ UNCHANGED <<allSplits_, frontiers_, numSelected>>
        ELSE IF best_it = 0
          THEN /\ pc' = "grown"
               /\ UNCHANGED <<allSplits_, frontiers_, numSelected>>
        ELSE IF ~DoubleLess(Zero, bestGain)
          THEN /\ pc' = "abort_gain"
               /\ UNCHANGED <<allSplits_, frontiers_, numSelected>>
        ELSE IF \/ allSplits_[frontiers_[best_it]].fid \notin Features
                \/ ds_.features_[allSplits_[frontiers_[best_it]].fid].encoding
                     \notin {"BYTE", "SHORT"}
          \* splitExamples: CHECK(f.encoding == SHORT)
          THEN /\ pc' = "abort_encoding"
               /\ allSplits_' = [allSplits_ EXCEPT ![frontiers_[best_it]].selected = TRUE]
               /\ frontiers_' = Erase(frontiers_, best_it)
               /\ numSelected' = numSelected + 1
        ELSE Expand(best_it, leftDraws, rightDraws)
  /\ UNCHANGED <<ds_, y_, FLAGS_min_leaf_examples, fimps, numLeaves,
                 exampleSamplingRate, featureSamplingRate, subset, firstSplit,
                 tree, calls>>

(***************************************************************************)
(* The rest of getTree: getTreeHelper on the root, and the return          *)
(***************************************************************************)
Materialize ==
  /\ pc = "grown"
  /\ \E r \in {getTreeHelper(firstSplit, fimps)} :
       \E killed \in (IF r.deref THEN BOOLEAN ELSE {FALSE}) :
          IF killed
            THEN /\ pc' = "segv"
                 /\ fimps' = r.atDeref
                 /\ UNCHANGED <<tree, calls>>
          ELSE IF r.failed
            THEN /\ pc' = "abort_leaf"
                 /\ fimps' = r.fimps
                 /\ UNCHANGED <<tree, calls>>
          ELSE /\ pc' = "idle"
               /\ fimps' = r.fimps
               /\ tree' = r.node
               /\ calls' = calls + 1
  /\ UNCHANGED <<ds_, y_, FLAGS_min_leaf_examples, allSplits_, frontiers_,
                 numLeaves, exampleSamplingRate, featureSamplingRate, subset,
                 firstSplit, numSelected>>

(***************************************************************************)
(* rand() is called once per row in getTree and once per non-empty feature *)
(* in every non-terminal getBestSplit; where it is not called the draw is  *)
(* fixed at 0 and not read.                                                *)
(***************************************************************************)
NoDraws == [f \in Features |-> 0]
FeatureDraws ==
  {d \in [Features -> Draws] :
     \A f \in Features : ds_.features_[f].encoding = "EMPTY" => d[f] = 0}
ChildDraws ==
  IF /\ Len(frontiers_) = numSelected + 1
     /\ BestIt(frontiers_) # 0
     /\ numSelected + 1 # numSplits
  THEN FeatureDraws ELSE {NoDraws}

\* the first getTree call on a freshly constructed object
GetTree ==
  /\ calls = 0
  /\ \E n \in 1 .. MaxLeaves, eRate \in Rates, fRate \in Rates,
        rowDraws \in [Examples -> Draws], featDraws \in FeatureDraws :
       GetTreeBegin(n, eRate, fRate, rowDraws, featDraws)

Grow ==
  \E leftDraws \in ChildDraws, rightDraws \in ChildDraws :
    SelectExpand(leftDraws, rightDraws)

Next == GetTree \/ Grow \/ Materialize

Spec == Init /\ [][Next]_vars

(***************************************************************************)
(* Several getTree calls, one after the other, on the same object.  The    *)
(* members allSplits_ and frontiers_ are written by push_back and erase    *)
(* only, and deleted by the destructor; getTree does not reset them.  The  *)
(* row draws are all 0 here: a call samples every row (rate 1.0) or none   *)
(* (rate 0.0).                                                             *)
(***************************************************************************)
GetTreeOnce ==
  /\ calls < MaxCalls
  /\ \E n \in 1 .. MaxLeaves, eRate \in Rates, fRate \in Rates,
        featDraws \in FeatureDraws :
       GetTreeBegin(n, eRate, fRate, [i \in Examples |-> 0], featDraws)

NextReuse == GetTreeOnce \/ Grow \/ Materialize

SpecReuse == Init /\ [][NextReuse]_vars

(***************************************************************************)
(* Vocabulary of the properties                                            *)
(***************************************************************************)
Range(s) == {s[i] : i \in 1 .. Len(s)}
Ptrs == 1 .. Len(allSplits_)
Selected == {p \in Ptrs : allSplits_[p].selected}
Growing == pc \in {"loop", "grown"}
Returned == pc = "idle" /\ calls > 0
Positive(g) == DoubleLess(Zero, g)
NumBins(f) == Len(ds_.features_[f].transitions) + 1
Code(f, id) ==
  IF ds_.features_[f].encoding = "BYTE" THEN ds_.features_[f].bvec[id]
  ELSE ds_.features_[f].svec[id]

\* C1 (as claimed): growth makes at most numSplits = numLeaves - 1 expansions,
\* numSplits = 0 included.
C1_AtMostNumSplits == numSelected <= numSplits

\* C2 (as claimed): at all times during growth, the final expansion included,
\* the frontier holds numSelected + 1 candidates.
C2_FrontierAlways == Growing => Len(frontiers_) = numSelected + 1

\* C2 (amended): after every expansion step but the numSplits-th, and when
\* growth stops for want of a positive gain, the frontier holds numSelected + 1
\* candidates; after the numSplits-th expansion, whose children are terminal
\* and stay off the frontier, it holds numSelected - 1.
C2_FrontierSize ==
  /\ pc = "loop" /\ numSelected >= 1 => Len(frontiers_) = numSelected + 1
  /\ pc = "grown" =>
       Len(frontiers_) = IF numSelected >= 1 /\ numSelected = numSplits
                         THEN numSelected - 1 ELSE numSelected + 1

C2_Witness ==
  /\ pc = "grown" /\ numSelected = 2 /\ numSplits = 2 /\ Len(frontiers_) = 1

RECURSIVE Leaves(_)
Leaves(t) ==
  IF t.kind = "LeafNode" THEN {t.rows}
  ELSE IF t.kind = "PartitionNode" THEN Leaves(t.left) \cup Leaves(t.right)
  ELSE {}

\* C3: both subsets made by an expansion have at least min_leaf_examples rows,
\* so has every leaf of the returned tree, and the leaf-size CHECK of
\* getTreeHelper never fails.
C3_MinLeaf ==
  /\ \A p \in Selected :
       /\ allSplits_[p].left # NULL =>
            Len(allSplits_[allSplits_[p].left].subset) >= FLAGS_min_leaf_examples
       /\ allSplits_[p].right # NULL =>
            Len(allSplits_[allSplits_[p].right].subset) >= FLAGS_min_leaf_examples
  /\ pc # "abort_leaf"
  /\ Returned => \A rows \in Leaves(tree) : Len(rows) >= FLAGS_min_leaf_examples

C3_Witness ==
  /\ Returned /\ FLAGS_min_leaf_examples = 2 /\ tree.kind = "PartitionNode"
  /\ \E f \in Features : \E b \in 0 .. (NumBins(f) - 1) :
       ds_.features_[f].encoding # "EMPTY"
       /\ Cardinality({id \in Range(subset) : Code(f, id) = b}) = 1

\* C4: the children of a selected candidate partition its subset, and a row is
\* in the left child iff its code for the chosen feature is <= the threshold.
C4_Partition ==
  \A p \in Selected :
    pc \notin AbortStates =>
      /\ allSplits_[p].left # NULL
      /\ allSplits_[p].right # NULL
      /\ LET s == allSplits_[p]
             l == allSplits_[s.left].subset
             r == allSplits_[s.right].subset
         IN /\ Range(l) \cap Range(r) = {}
            /\ Range(l) \cup Range(r) = Range(s.subset)
            /\ Len(l) + Len(r) = Len(s.subset)
            /\ \A id \in Range(s.subset) : id \in Range(l) <=> Code(s.fid, id) <= s.fv

C4_Witness ==
  /\ numSelected = 2
  /\ \E p \in Selected : allSplits_[p].fid = 1
  /\ \E p \in Selected : allSplits_[p].fid = 0 /\ allSplits_[p].fv = 1

\* the candidate that this step marks selected
Chosen(p) == ~allSplits_[p].selected /\ allSplits_'[p].selected
Gain(p) == allSplits_[p].gain

\* C5 (as claimed): a candidate is selected only if its gain is strictly
\* greater than the gain of every other candidate then in the frontier.
C5_StrictlyBest ==
  [][\A p \in Ptrs : Chosen(p) =>
       \A q \in Range(frontiers_) \ {p} : DoubleLess(Gain(q), Gain(p))]_vars

\* C5 (amended): a candidate is selected only if it is in the frontier, its
\* gain is > 0 and at least the gain of every other frontier candidate, and
\* strictly greater than the gain of every candidate before it in the frontier.
C5_BestFirst ==
  [][\A p \in Ptrs : Chosen(p) =>
       \E i \in 1 .. Len(frontiers_) :
         /\ frontiers_[i] = p
         /\ Positive(Gain(p))
         /\ \A j \in 1 .. Len(frontiers_) :
              /\ ~DoubleLess(Gain(p), Gain(frontiers_[j]))
              /\ j < i => DoubleLess(Gain(frontiers_[j]), Gain(p))]_vars

\* a selected candidate whose sibling, still in the frontier, has the same gain
C5_Witness ==
  \E r \in Selected : \E p \in Selected, q \in Range(frontiers_) :
    /\ allSplits_[r].left = p /\ allSplits_[r].right = q
    /\ Gain(p) = Gain(q)

\* C6: a sample smaller than min_leaf_examples * numLeaves aborts getTree
\* before any candidate exists: arena, frontier, importances and the returned
\* tree stay as they were.
C6_AbortUntouched ==
  [][pc = "idle" /\ pc' # "idle"
       /\ Len(subset') < FLAGS_min_leaf_examples * numLeaves'
     => /\ pc' = "abort_subset"
        /\ UNCHANGED <<allSplits_, frontiers_, fimps, tree, calls>>]_vars

C6_Witness ==
  /\ pc = "abort_subset" /\ Len(subset) >= FLAGS_min_leaf_examples
  /\ allSplits_ = <<>> /\ frontiers_ = <<>>

AllEqual(rows) == \A i, j \in Range(rows) : y_[i] = y_[j]
TotalSum(rows) == Sum([i \in 1 .. Len(rows) |-> y_[rows[i]]])
RECURSIVE CntUpTo(_, _)
CntUpTo(hist, idx) == IF idx < 0 THEN 0 ELSE hist.cnt[idx] + CntUpTo(hist, idx - 1)
RECURSIVE SumUpTo(_, _)
SumUpTo(hist, idx) == IF idx < 0 THEN 0 ELSE hist.sumy[idx] + SumUpTo(hist, idx - 1)

\* C7: when all sampled targets are equal, every gain of every histogram is 0,
\* the root has fid = -1 and gain 0, nothing is ever selected and the returned
\* tree is a single leaf.
C7_ZeroVariance ==
  firstSplit # NULL /\ AllEqual(subset) =>
    /\ \A f \in Features : ds_.features_[f].encoding # "EMPTY" =>
         LET hist == FeatureHistogram(subset, TotalSum(subset), f)
         IN /\ \A idx \in 0 .. (hist.num - 2) :
                 LET cntLeft == CntUpTo(hist, idx)
                 IN cntLeft >= 1 /\ hist.totalCnt - cntLeft >= 1 =>
                      GainAt(hist, cntLeft, SumUpTo(hist, idx)) = Zero
            /\ getBestSplitFromHistogram(hist) =
                 [idx |-> -1, gain |-> Zero, failed |-> FALSE]
    /\ allSplits_[firstSplit].fid = -1
    /\ allSplits_[firstSplit].gain = Zero
    /\ numSelected = 0
    /\ Selected = {}
    /\ Returned => tree = [kind |-> "LeafNode", rows |-> subset]

C7_Witness ==
  /\ Returned /\ AllEqual(subset) /\ numLeaves = 3 /\ FLAGS_min_leaf_examples = 1
  /\ featureSamplingRate = <<1, 1>>
  /\ \E i, j \in Range(subset) : Code(0, i) # Code(0, j)
  /\ tree.kind = "LeafNode"

\* C8: a candidate is selected only with gain > 0 and a found feature and
\* threshold; when growth stops short of numSplits selections every frontier
\* candidate has gain 0 and the call returns a tree.
C8_SelectedPositive ==
  /\ \A p \in Selected :
       /\ Positive(Gain(p))
       /\ allSplits_[p].fid \in Features
       /\ ds_.features_[allSplits_[p].fid].encoding # "EMPTY"
       /\ allSplits_[p].fv \in 0 .. (NumBins(allSplits_[p].fid) - 2)
  /\ pc \notin {"abort_gain", "abort_encoding", "abort_num"}
  /\ numSelected < numSplits =>
       /\ pc \notin {"abort_leaf", "segv"}
       /\ pc = "grown" \/ Returned => \A q \in Range(frontiers_) : Gain(q) = Zero

C8_Witness ==
  /\ Returned /\ numSelected = 1 /\ numSplits = 2 /\ Len(frontiers_) = 2
  /\ tree.kind = "PartitionNode"

\* the selected candidates in the order in which getTreeHelper meets them
RECURSIVE WalkOrder(_)
WalkOrder(p) ==
  IF p = NULL THEN <<>>
  ELSE IF ~allSplits_[p].selected THEN <<>>
  ELSE <<p>> \o WalkOrder(allSplits_[p].left) \o WalkOrder(allSplits_[p].right)
\* acc plus the gains of the candidates of s that split on f, added one by one
RECURSIVE GainSum(_, _, _)
GainSum(f, s, acc) ==
  IF s = <<>> THEN acc
  ELSE GainSum(f, Tail(s), IF allSplits_[Head(s)].fid = f
                           THEN DoubleAdd(acc, allSplits_[Head(s)].gain) ELSE acc)

\* C9: a completed call adds to fimps[f] the gains of the selected candidates
\* that split on f and nothing else; no entry ever decreases, and nothing but
\* the walk of getTreeHelper writes the array.
C9_Importances ==
  [][/\ pc = "grown" /\ pc' = "idle" =>
          /\ Range(WalkOrder(firstSplit)) = Selected
          /\ Len(WalkOrder(firstSplit)) = Cardinality(Selected)
          /\ \A f \in Features :
               /\ fimps'[f] = GainSum(f, WalkOrder(firstSplit), fimps[f])
               /\ ~DoubleLess(fimps'[f], fimps[f])
               /\ (\A p \in Selected : allSplits_[p].fid # f) => fimps'[f] = fimps[f]
     /\ \A f \in Features : ~DoubleLess(fimps'[f], fimps[f])
     /\ pc # "grown" => fimps' = fimps]_vars

C9_Witness ==
  /\ Returned
  /\ \E p, q \in Selected : p # q /\ allSplits_[p].fid = allSplits_[q].fid
  /\ \E f \in Features : Positive(fimps[f])

Scenario ==
  /\ ds_.features_[1].encoding = "EMPTY"
  /\ \A id \in Range(subset) :
       \/ Code(0, id) = 0 /\ y_[id] = 1
       \/ Code(0, id) = 2 /\ y_[id] = -1

\* C10: with numSplits = 1, both rates 1.0 and a root of positive gain, the
\* call returns one internal node with the root's feature and threshold over
\* two leaves and raises that feature's importance; with rows in bins 0 and 2
\* only, of targets 1 and -1, the threshold is bin index 0, bin 0 goes left
\* and bin 2 goes right.
C10_OneSplit ==
  [][/\ pc = "grown" /\ pc' = "idle" /\ numSplits = 1
     /\ exampleSamplingRate = <<1, 1>> /\ featureSamplingRate = <<1, 1>>
     /\ Positive(allSplits_[firstSplit].gain)
     => LET root == allSplits_[firstSplit]
            goesLeft(id) == Code(root.fid, id) <= root.fv
            goesRight(id) == Code(root.fid, id) > root.fv
            inBin0(id) == Code(0, id) = 0
            inBin2(id) == Code(0, id) = 2
        IN /\ tree' = [kind |-> "PartitionNode", fid |-> root.fid, fv |-> root.fv,
                       rows |-> subset,
                       left |-> [kind |-> "LeafNode",
                                 rows |-> SelectSeq(subset, goesLeft)],
                       right |-> [kind |-> "LeafNode",
                                  rows |-> SelectSeq(subset, goesRight)]]
           /\ DoubleLess(fimps[root.fid], fimps'[root.fid])
           /\ Scenario =>
                /\ root.fid = 0 /\ root.fv = 0
                /\ tree'.left.rows = SelectSeq(subset, inBin0)
                /\ tree'.right.rows = SelectSeq(subset, inBin2)]_vars

C10_Witness ==
  /\ Returned /\ numLeaves = 2 /\ Scenario /\ Len(subset) = NumExamples
  /\ exampleSamplingRate = <<1, 1>> /\ featureSamplingRate = <<1, 1>>
  /\ FLAGS_min_leaf_examples = 2
  /\ tree.kind = "PartitionNode" /\ tree.fv = 0 /\ Positive(fimps[0])

RECURSIVE LeafCount(_)
LeafCount(t) ==
  IF t.kind = "LeafNode" THEN 1
  ELSE IF t.kind = "PartitionNode" THEN LeafCount(t.left) + LeafCount(t.right)
  ELSE 0

\* C11 (as claimed): for numLeaves >= 1 the returned tree has at least 1 and
\* at most numLeaves leaves.
C11_LeafBound == Returned => LeafCount(tree) >= 1 /\ LeafCount(tree) <= numLeaves

\* the split indices a full scan may return: both sides have at least
\* min_leaf_examples rows
Eligible(hist) ==
  {i \in 0 .. (hist.num - 2) :
     /\ CntUpTo(hist, i) >= FLAGS_min_leaf_examples
     /\ hist.totalCnt - CntUpTo(hist, i) >= FLAGS_min_leaf_examples}
GainOfIdx(hist, i) == GainAt(hist, CntUpTo(hist, i), SumUpTo(hist, i))
\* the eligible indices of maximal gain, when that gain is > 0
BestIdxs(hist) ==
  {i \in Eligible(hist) :
     /\ Positive(GainOfIdx(hist, i))
     /\ \A j \in Eligible(hist) : ~DoubleLess(GainOfIdx(hist, i), GainOfIdx(hist, j))}
FullScan(hist) ==
  IF BestIdxs(hist) = {} THEN [idx |-> -1, gain |-> Zero]
  ELSE LET i == CHOOSE k \in BestIdxs(hist) : \A j \in BestIdxs(hist) : k <= j
       IN [idx |-> i, gain |-> GainOfIdx(hist, i)]

\* the histograms of the candidates' subsets, one per non-empty feature
CandidateHistograms ==
  {FeatureHistogram(allSplits_[p].subset, TotalSum(allSplits_[p].subset), f) :
     <<p, f>> \in {pf \in Ptrs \X Features : ds_.features_[pf[2]].encoding # "EMPTY"}}

\* C12: getBestSplitFromHistogram returns what a scan of all indices
\* 0 .. #bins-2 without early exit returns: the lowest index of maximal gain
\* among those with both counts >= min_leaf_examples if that gain is > 0,
\* else index -1 and gain 0; it never returns the last bin index.
C12_FullScan ==
  \A hist \in CandidateHistograms :
    /\ ~getBestSplitFromHistogram(hist).failed
    /\ getBestSplitFromHistogram(hist).idx = FullScan(hist).idx
    /\ getBestSplitFromHistogram(hist).gain = FullScan(hist).gain
    /\ getBestSplitFromHistogram(hist).idx # hist.num - 1

\* a scan that leaves the loop at index 0 with index 1 unvisited, one that
\* skips index 0 and returns index 1, and one with two indices of maximal gain
C12_Witness ==
  /\ \E hist \in CandidateHistograms :
       /\ hist.num = 3 /\ hist.cnt[0] >= FLAGS_min_leaf_examples
       /\ hist.totalCnt - hist.cnt[0] < FLAGS_min_leaf_examples
  /\ \E hist \in CandidateHistograms :
       /\ hist.cnt[0] < FLAGS_min_leaf_examples
       /\ getBestSplitFromHistogram(hist).idx = 1
  /\ \E hist \in CandidateHistograms : Cardinality(BestIdxs(hist)) = 2

\* the features a non-terminal getBestSplit evaluates under the given draws
Sampled(rate, draws) ==
  {f \in Features :
     ds_.features_[f].encoding # "EMPTY" /\ biasedCoinFlip(rate, draws[f])}
Evaluated(rows, f) ==
  getBestSplitFromHistogram(FeatureHistogram(rows, TotalSum(rows), f))
\* the features of S whose evaluator gain is maximal in S and > 0
BestFeatures(rows, S) ==
  {f \in S :
     /\ Positive(Evaluated(rows, f).gain)
     /\ \A g \in S : ~DoubleLess(Evaluated(rows, f).gain, Evaluated(rows, g).gain)}
LowestBestFeature(rows, S) ==
  IF BestFeatures(rows, S) = {} THEN [fid |-> -1, fv |-> 0, gain |-> Zero]
  ELSE LET f == CHOOSE k \in BestFeatures(rows, S) :
                  \A g \in BestFeatures(rows, S) : k <= g
       IN [fid |-> f, fv |-> Evaluated(rows, f).idx, gain |-> Evaluated(rows, f).gain]
Stored(p) ==
  [fid |-> allSplits_[p].fid, fv |-> allSplits_[p].fv, gain |-> allSplits_[p].gain]

\* C13: a non-terminal getBestSplit stores feature, threshold and gain of the
\* lowest-numbered feature of maximal evaluator gain among the non-empty
\* sampled features if that gain is > 0, else fid = -1 and gain 0; the chosen
\* feature is never empty-encoded or unsampled; every candidate has gain >= 0,
\* and gain > 0 iff fid # -1.
C13_LowestBestFeature ==
  /\ \A p \in Ptrs : \A draws \in FeatureDraws :
       LET rows == allSplits_[p].subset
           S == Sampled(featureSamplingRate, draws)
       IN \E made \in {getBestSplit([all |-> <<>>, fr |-> <<>>], rows,
                                    featureSamplingRate, FALSE, draws)} :
            \E best \in {LowestBestFeature(rows, S)} :
              /\ made.fr = <<1>>
              /\ made.all = <<[SplitNode(rows) EXCEPT !.fid = best.fid,
                                 !.fv = best.fv, !.gain = best.gain]>>
              /\ best.fid # -1 => best.fid \in S
  /\ \A p \in Ptrs :
       /\ \E draws \in FeatureDraws :
            Stored(p) = LowestBestFeature(allSplits_[p].subset,
                                          Sampled(featureSamplingRate, draws))
       /\ ~DoubleLess(Gain(p), Zero)
       /\ Positive(Gain(p)) <=> allSplits_[p].fid # -1
       /\ allSplits_[p].fid # -1 =>
            /\ allSplits_[p].fid \in Features
            /\ ds_.features_[allSplits_[p].fid].encoding # "EMPTY"

\* a candidate for which both features have the same positive gain and the
\* lower-numbered one is stored, and a frontier candidate that stores fid = -1
\* although feature 0, not sampled, has a positive gain
C13_Witness ==
  /\ ds_.features_[1].encoding # "EMPTY"
  /\ \E p \in Ptrs :
       /\ BestFeatures(allSplits_[p].subset, Features) = Features
       /\ allSplits_[p].fid = 0
  /\ \E q \in Range(frontiers_) :
       /\ allSplits_[q].fid = -1
       /\ Positive(Evaluated(allSplits_[q].subset, 0).gain)

\* Candidates are numbered in creation order: the children of the k-th
\* selection of a call are the (2k)-th and (2k + 1)-th candidate after the
\* call began, the root being the first.
Terminals ==
  IF numSplits >= 1 /\ firstSplit # NULL
    THEN {firstSplit + 2 * numSplits - 1, firstSplit + 2 * numSplits} \cap Ptrs
    ELSE {}
Without(s, p) == SelectSeq(s, LAMBDA q : q # p)

\* C14: the two children of the numSplits-th selection, and only those, are
\* terminal: fid = -1 and gain 0 without a split search, never on the frontier,
\* never selected; the children of every other selection are searched and
\* appended to the frontier, left before right.
C14_TerminalChildren ==
  [][/\ \A p \in Ptrs : Chosen(p) /\ pc' \notin AbortStates =>
          LET l == allSplits_'[p].left
              r == allSplits_'[p].right
          IN /\ l = Len(allSplits_) + 1 /\ r = l + 1 /\ Len(allSplits_') = r
             /\ IF numSelected' = numSplits
                  THEN /\ Terminals' = {l, r}
                       /\ frontiers_' = Without(frontiers_, p)
                  ELSE /\ Terminals' = {}
                       /\ frontiers_' = Without(frontiers_, p) \o <<l, r>>
                       /\ \A c \in {l, r} : \E draws \in FeatureDraws :
                            Stored(c)' =
                              LowestBestFeature(allSplits_'[c].subset,
                                                Sampled(featureSamplingRate, draws))
     /\ \A t \in Terminals' :
          /\ allSplits_'[t] = SplitNode(allSplits_'[t].subset)
          /\ t \notin Range(frontiers_')
          /\ t \notin Range(frontiers_)]_vars

\* both selections of a call with numSplits = 2 made; the children of the
\* first were put on the frontier, those of the second were not, and one of
\* them has fid = -1 over a subset that feature 0 splits with positive gain
C14_Witness ==
  /\ numSplits = 2 /\ numSelected = 2 /\ Terminals = {4, 5}
  /\ featureSamplingRate = <<1, 1>>
  /\ Range(frontiers_) \subseteq {2, 3} /\ Len(frontiers_) = 1
  /\ \E t \in Terminals :
       /\ allSplits_[t].fid = -1
       /\ Positive(Evaluated(allSplits_[t].subset, 0).gain)

\* the frontier lists its candidates in the order of their creation
CreationOrder(fr) == \A i, j \in 1 .. Len(fr) : i < j => fr[i] < fr[j]

\* C15: the candidate selected by a Select-Expand step is the earliest in
\* frontier order among the frontier candidates of maximal gain, and frontier
\* order is creation order: new children go to the end, and removing the
\* selected entry keeps the order of the rest.
C15_EarliestOfBest ==
  [][/\ CreationOrder(frontiers_) /\ CreationOrder(frontiers_')
     /\ \A p \in Ptrs : Chosen(p) =>
          /\ p \in Range(frontiers_)
          /\ \A q \in Range(frontiers_) :
               /\ ~DoubleLess(Gain(p), Gain(q))
               /\ Gain(q) = Gain(p) => p <= q
          /\ pc' \notin AbortStates =>
               \E kids \in {<<>>, <<Len(allSplits_) + 1, Len(allSplits_) + 2>>} :
                 frontiers_' = Without(frontiers_, p) \o kids]_vars

\* the third selection, made from a frontier of three: the candidate selected
\* was created by the first selection and has the gain of a candidate created
\* by the second, which stays in the frontier
C15_Witness ==
  /\ numSelected = 3 /\ Len(frontiers_) = 2
  /\ \E p \in Selected \cap {2, 3}, q \in Range(frontiers_) \cap {4, 5} :
       /\ allSplits_[p].left = 6
       /\ Gain(p) = Gain(q)

\* the candidates of the tree in progress: the root of this call and below
RECURSIVE Reach(_)
Reach(p) ==
  IF p = NULL THEN {}
  ELSE {p} \cup Reach(allSplits_[p].left) \cup Reach(allSplits_[p].right)
RECURSIVE InternalCount(_)
InternalCount(t) ==
  IF t.kind = "PartitionNode" THEN 1 + InternalCount(t.left) + InternalCount(t.right)
  ELSE 0
RECURSIVE NullCount(_)
NullCount(t) ==
  IF t.kind = "PartitionNode" THEN NullCount(t.left) + NullCount(t.right)
  ELSE IF t.kind = "NULL" THEN 1 ELSE 0
RECURSIVE Internals(_)
Internals(t) ==
  IF t.kind = "PartitionNode"
    THEN {<<t.fid, t.fv, t.rows>>} \cup Internals(t.left) \cup Internals(t.right)
  ELSE {}
\* the tree that the call returns: built already, or about to be built
OutputTree == IF pc = "grown" THEN getTreeHelper(firstSplit, fimps).node ELSE tree

\* C16: when growth has finished an unselected candidate has two null
\* children and a selected one two non-null children; getTreeHelper meets no
\* null candidate, and the output tree has one internal node per selected
\* candidate, with its feature and threshold, and one leaf per unselected
\* candidate: numSelected + 1 leaves.
C16_TreeShape ==
  /\ pc # "segv"
  /\ pc = "grown" \/ Returned =>
       /\ \A p \in Ptrs :
            IF allSplits_[p].selected
              THEN /\ allSplits_[p].left \in Ptrs /\ allSplits_[p].right \in Ptrs
                   /\ allSplits_[p].left # allSplits_[p].right
              ELSE allSplits_[p].left = NULL /\ allSplits_[p].right = NULL
       /\ firstSplit # NULL
       /\ pc = "grown" => ~getTreeHelper(firstSplit, fimps).deref
       /\ NullCount(OutputTree) = 0
       /\ InternalCount(OutputTree) = numSelected
       /\ InternalCount(OutputTree) = Cardinality(Reach(firstSplit) \cap Selected)
       /\ Internals(OutputTree) =
            {<<allSplits_[p].fid, allSplits_[p].fv, allSplits_[p].subset>> :
               p \in Reach(firstSplit) \cap Selected}
       /\ LeafCount(OutputTree) = numSelected + 1
       /\ LeafCount(OutputTree) = Cardinality(Reach(firstSplit) \ Selected)
       /\ Leaves(OutputTree) = {allSplits_[p].subset : p \in Reach(firstSplit) \ Selected}

\* a returned tree of three internal nodes, the root over two of them, and
\* four leaves
C16_Witness ==
  /\ Returned /\ numSelected = 3 /\ LeafCount(tree) = 4
  /\ tree.left.kind = "PartitionNode" /\ tree.right.kind = "PartitionNode"
  /\ Cardinality(Selected) = 3 /\ Len(allSplits_) = 7

\* C17 (as claimed): after every expansion step of a growth call the arena
\* holds every candidate created so far once, so its size is
\* 1 + 2 * numSelected; the frontier is a duplicate-free subset of the arena
\* and holds only unselected, non-terminal candidates.
C17_ArenaAndFrontier ==
  Growing /\ numSelected >= 1 =>
    /\ Len(allSplits_) = 1 + 2 * numSelected
    /\ \A i, j \in 1 .. Len(frontiers_) : i # j => frontiers_[i] # frontiers_[j]
    /\ \A q \in Range(frontiers_) :
         q \in Ptrs /\ ~allSplits_[q].selected /\ q \notin Terminals

\* C18 (as claimed): every getTree call, the first on the object or not,
\* starts from an empty frontier and an empty arena, what a finished call left
\* being discarded when it returns; the frontier-size check of the first
\* iteration passes on every call.
C18_FreshStart ==
  /\ pc = "idle" => allSplits_ = <<>> /\ frontiers_ = <<>>
  /\ pc # "abort_frontier"

Called == pc # "idle" \/ calls > 0
NonEmptyFeatures == {f \in Features : ds_.features_[f].encoding # "EMPTY"}

\* C19 (as claimed): for every draw r in 0 .. RAND_MAX biasedCoinFlip returns
\* true at rate 1.0 and false at rate 0.0, so that at rate 1.0 getTree samples
\* every row and getBestSplit evaluates every non-empty feature, and at rate
\* 0.0 none.
C19_Endpoints ==
  /\ \A r \in Draws : biasedCoinFlip(<<1, 1>>, r) /\ ~biasedCoinFlip(<<0, 1>>, r)
  /\ Called /\ exampleSamplingRate = <<1, 1>> => Len(subset) = ds_.numExamples
  /\ Called /\ exampleSamplingRate = <<0, 1>> => subset = <<>>
  /\ firstSplit # NULL /\ featureSamplingRate = <<1, 1>> =>
       Stored(firstSplit) = LowestBestFeature(subset, NonEmptyFeatures)
  /\ firstSplit # NULL /\ featureSamplingRate = <<0, 1>> =>
       Stored(firstSplit) = LowestBestFeature(subset, {})

====
